---- MODULE Spec2Model ----
(***************************************************************************)
(* State-machine model of the DSS price pipeline:                          *)
(*   savetocsv.save_scraped_data          -> outputs/scraped_results_*.csv *)
(*   ml_pipeline.train_model.train_and_save                                *)
(*   ml_pipeline.preprocessing.clean_and_feature_engineer                  *)
(*   ml_pipeline.preprocessing.preprocess_single_record                    *)
(*   ml_pipeline.predict.predict_price                                     *)
(* The persistent state is the two directories outputs/ and model/.  Each  *)
(* call is a small process whose steps are the file reads and writes of    *)
(* the code, in the code's order, so that calls can interleave.            *)
(*                                                                         *)
(* Strings the code takes apart (titles, prices) are sequences of          *)
(* one-character strings; "Rs" stands for the rupee sign.  Prices are      *)
(* integers in hundredths (paise), ratings integers in tenths.             *)
(***************************************************************************)
EXTENDS Integers, Sequences, FiniteSets, TLC

\* ------------------------------------------------------------------ bounds
MaxRuns == 2        \* training runs started (both training paths together)
MaxClock == 1       \* wall-clock seconds that pass (file names have 1 s resolution)
MaxBatch == 2       \* raw records in one list handed to save_scraped_data

\* ------------------------------------------------------------ small helpers
NoFile == [exists |-> FALSE]                \* os.path.exists(path) is False
File(obj) == [exists |-> TRUE, obj |-> obj] \* a file holding the dumped object
NaN == <<>>                 \* a missing number; a number v is <<v>>
None == <<>>                \* an attribute that is not set; a set one is <<v>>

Min(S) == CHOOSE x \in S : \A y \in S : x <= y
Max(S) == CHOOSE x \in S : \A y \in S : x >= y

Range(s) == {s[i] : i \in 1..Len(s)}

SelectIdx(s, Keep(_)) ==
    LET F[i \in 0..Len(s)] ==
            IF i = 0 THEN <<>>
            ELSE IF Keep(s[i]) THEN Append(F[i - 1], s[i]) ELSE F[i - 1]
    IN  F[Len(s)]

Digits == {"0", "1", "2", "3", "4", "5", "6", "7", "8", "9"}

DigitVal(c) ==
    CASE c = "0" -> 0 [] c = "1" -> 1 [] c = "2" -> 2 [] c = "3" -> 3
      [] c = "4" -> 4 [] c = "5" -> 5 [] c = "6" -> 6 [] c = "7" -> 7
      [] c = "8" -> 8 [] c = "9" -> 9

\* value of a run of digits, e.g. <<"1","2">> -> 12
DigitsVal(ds) ==
    LET F[i \in 0..Len(ds)] == IF i = 0 THEN 0 ELSE F[i - 1] * 10 + DigitVal(ds[i])
    IN  F[Len(ds)]

\* the longest run of digits of s that starts at position i
DigitRun(s, i) ==
    LET stop == IF i > Len(s) THEN i
                ELSE CHOOSE j \in i..(Len(s) + 1) :
                        /\ \A k \in i..(j - 1) : s[k] \in Digits
                        /\ (j > Len(s) \/ s[j] \notin Digits)
    IN  SubSeq(s, i, stop - 1)

\* float("<int>.<frac>") in hundredths; frac is read to two places
Hundredths(int, frac) ==
    DigitsVal(int) * 100
      + (IF Len(frac) = 0 THEN 0
         ELSE IF Len(frac) = 1 THEN DigitVal(frac[1]) * 10
         ELSE DigitVal(frac[1]) * 10 + DigitVal(frac[2]))

\* str.strip()
Strip(s) ==
    LET NonBlank == {i \in 1..Len(s) : s[i] # " "}
    IN  IF NonBlank = {} THEN <<>> ELSE SubSeq(s, Min(NonBlank), Max(NonBlank))

\* dict.get(key, default)
Get(item, key, default) == IF key \in DOMAIN item THEN item[key] ELSE default

\* item.get(k1) or item.get(k2) or default: a missing key gives None and the
\* empty string (empty) is falsy as well
GetOr(item, k1, k2, empty, default) ==
    IF k1 \in DOMAIN item /\ item[k1] # empty THEN item[k1]
    ELSE IF k2 \in DOMAIN item /\ item[k2] # empty THEN item[k2]
    ELSE default

Insert(t, x) ==
    LET k == Cardinality({j \in 1..Len(t) : t[j] <= x})
    IN  SubSeq(t, 1, k) \o <<x>> \o SubSeq(t, k + 1, Len(t))

SortAsc(s) ==
    LET F[i \in 0..Len(s)] == IF i = 0 THEN <<>> ELSE Insert(F[i - 1], s[i])
    IN  F[Len(s)]

\* pd.to_numeric(rating, errors="coerce"), in tenths
ToNumeric(r) ==
    CASE r = "4.5" -> <<45>> [] r = "4.0" -> <<40>> [] r = "3.5" -> <<35>> [] OTHER -> NaN

FillNa(v, d) == IF v = NaN THEN d ELSE v[1]

\* -------------------------------------------------------------- input data
\* Titles and prices the scrapers can deliver (RawRecord fields).
T_SamUltra == <<"S", "a", "m", " ", "U", "l", "t", "r", "a">>
T_SamFE    == <<"S", "a", "m", " ", "F", "E">>
T_Oppo     == <<"O", "p", "p", "o", " ", "5", "G">>
T_Vivo     == <<"V", "i", "v", "o", " ", "Y", "2", "0">>
T_NA       == <<"N", "/", "A">>
T_Paren    == <<"(", "N", "e", "w", ")", " ", "S", "a", "m">>

P_1200a == <<"Rs", "1", ",", "2", "0", "0">>
P_1200b == <<"1", "2", "0", "0">>
P_1500a == <<"Rs", " ", "1", ",", "5", "0", "0", ".", "0", "0">>
P_1500b == <<" ", "1", "5", "0", "0", " ">>
P_900   == <<"Rs", "9", "0", "0">>
P_2000  == <<"2", ",", "0", "0", "0">>
P_NA    == <<"N", "/", "A">>
P_Zero  == <<"0">>
P_Off   == <<"Rs", "1", ",", "2", "0", "0", " ", "5", "%">>

\* what search_amazon / scrape_flipkart_prices hand to save_scraped_data
RawA ==
    << [title |-> T_SamUltra, price |-> P_1200a, rating |-> "4.5", url |-> "u1", platform |-> "Amazon"],
       [name |-> T_SamFE, price |-> P_1200b, rating |-> "N/A", link |-> "u2", platform |-> "Flipkart"],
       [title |-> T_SamUltra, price |-> P_1500a, rating |-> "4.0", url |-> "u3", platform |-> "Amazon"],
       [title |-> T_Oppo, price |-> P_1500b, rating |-> "", url |-> "u4", platform |-> "Flipkart"] >>

RawB ==
    << [title |-> T_Oppo, price |-> P_900, rating |-> "4.0", url |-> "u5", platform |-> "Flipkart"],
       [title |-> T_SamFE, price |-> P_2000, rating |-> "4.5", url |-> "u6"],
       [title |-> T_SamUltra, price |-> P_1500b, rating |-> "3.5", url |-> "u10", platform |-> "Flipkart"],
       [title |-> T_SamUltra, price |-> P_NA, url |-> "u7", platform |-> "Flipkart"] >>

RawBad ==
    << [title |-> T_SamFE, price |-> P_NA, rating |-> "4.0", url |-> "u8", platform |-> "Amazon"],
       [title |-> T_Oppo, price |-> P_Zero, rating |-> "4.5", url |-> "u9", platform |-> "Amazon"] >>

RawOne ==
    << [title |-> T_Oppo, price |-> P_900, rating |-> "4.0", url |-> "u5", platform |-> "Amazon"] >>

\* a batch from Flipkart and from a scraper that names no platform
RawC ==
    << [title |-> T_Oppo, price |-> P_900, rating |-> "4.0", url |-> "u11", platform |-> "Flipkart"],
       [name |-> T_SamFE, price |-> P_900, rating |-> "4.5", link |-> "u12"] >>

RawInputs == {RawA, RawB, RawBad, <<>>}

\* --------------------------------------------------------------- the state
VARIABLES
    now,        \* datetime.now(), in seconds
    outputs,    \* outputs/: file name (the second it was stamped with) -> [latest, rows]
    model_dir,  \* model/: artifact name -> NoFile or the object dumped there
    runs,       \* training runs started so far (identifies a run)
    tr,         \* the train_and_save call in progress
    fe,         \* the clean_and_feature_engineer call in progress
    pr          \* the predict_price call in progress

vars == <<now, outputs, model_dir, runs, tr, fe, pr>>

Artifacts == {"scaler", "rf_model", "lr_model", "platform_encoder",
              "brand_stats", "model_performance"}

\* ------------------------------------------------------- save_scraped_data
\* the mapped row taking title and url from their first key only
NormalizeFirstKey(item, t) ==
    [title     |-> Get(item, "title", T_NA),
     price     |-> Strip(Get(item, "price", <<>>)),
     rating    |-> Get(item, "rating", ""),
     url       |-> Get(item, "url", "N/A"),
     platform  |-> Get(item, "platform", "Unknown"),
     timestamp |-> t]

\* savetocsv.py 26-35: one mapped row per raw item
Normalize(item, t) ==
    [title     |-> GetOr(item, "title", "name", <<>>, T_NA),
     price     |-> Strip(Get(item, "price", <<>>)),
     rating    |-> Get(item, "rating", ""),
     url       |-> GetOr(item, "url", "link", "", "N/A"),
     platform  |-> Get(item, "platform", "Unknown"),
     timestamp |-> t]

Unified(data, t) == [i \in 1..Len(data) |-> Normalize(data[i], t)]

\* to_csv at path name: the file is created or replaced.  Of os.path.getctime
\* only what the code asks of it is kept: which file was written last.
WriteFile(dir, name, rows) ==
    [n \in DOMAIN dir \cup {name} |->
        IF n = name THEN [latest |-> TRUE, rows |-> rows]
        ELSE [dir[n] EXCEPT !.latest = FALSE]]

\* savetocsv.py 9-54.  A training run reads its batch in its first step and
\* never looks at outputs/ again, so a save that falls inside a run is the
\* same as one right after it (a prediction never looks at outputs/ at all):
\* saves are taken between calls.
save_scraped_data(data) ==
    /\ tr.pc = "idle" /\ fe.pc = "idle" /\ pr.pc = "idle"
    /\ IF data = <<>>
       THEN UNCHANGED outputs                                 \* 20-22: skip
       ELSE outputs' = WriteFile(outputs, now, Unified(data, now))
    /\ UNCHANGED <<now, model_dir, runs, tr, fe, pr>>

\* The clock advances.  A call takes less than a second, and a second in
\* which nothing was saved leaves no trace: only the seconds of the saves count.
Tick ==
    /\ now < MaxClock
    /\ now \in DOMAIN outputs
    /\ tr.pc = "idle" /\ fe.pc = "idle" /\ pr.pc = "idle"
    /\ now' = now + 1
    /\ UNCHANGED <<outputs, model_dir, runs, tr, fe, pr>>

\* ---------------------------------------------------------- train_and_save
\* train_model.py 64-71: strip the rupee sign and the commas, take the first
\* match of (\d+\.?\d*), read it as a float.  (pd.read_csv turns "N/A" and ""
\* into NaN, astype(str) into "nan": no digit either way.)
TrainPrice(s) ==
    LET s1 == SelectIdx(s, LAMBDA c : c # "Rs")
        s2 == SelectIdx(s1, LAMBDA c : c # ",")
        starts == {i \in 1..Len(s2) : s2[i] \in Digits}
    IN  IF starts = {} THEN NaN
        ELSE LET i == Min(starts)
                 int == DigitRun(s2, i)
                 j == i + Len(int)
                 frac == IF j <= Len(s2) /\ s2[j] = "." THEN DigitRun(s2, j + 1) ELSE <<>>
             IN  <<Hundredths(int, frac)>>

\* train_model.py 73-75: dropna(subset=["price"]) and price > 0
ValidPrice(v) == v # NaN /\ v[1] > 0

\* train_model.py 64-76: the cleaned frame, price now a number
TrainClean(rows) ==
    LET priced == [i \in 1..Len(rows) |-> [rows[i] EXCEPT !.price = TrainPrice(@)]]
        kept == SelectIdx(priced, LAMBDA r : ValidPrice(r.price))
    IN  [i \in 1..Len(kept) |-> [kept[i] EXCEPT !.price = @[1]]]

\* train_and_save picking the oldest batch file (min in place of max)
LatestFileOldest(dir) == Min(DOMAIN dir)

\* train_model.py 52-56: max(glob(...), key=os.path.getctime)
LatestFile(dir) == CHOOSE n \in DOMAIN dir : dir[n].latest

\* train_model.py 106-114: the columns of the matrix the models are fitted on
TrainColumns == <<"rating", "storage_gb", "ram_gb", "brand_encoded",
                  "series_encoded", "platform_encoded", "is_5g">>

\* train_model.py 123-125: train_test_split(test_size=0.2) needs a non-empty
\* train part: n - ceil(0.2 n) >= 1
SplitOk(n) == n - ((2 * n + 9) \div 10) >= 1

\* train_model.py 87-115: X and y are computed from these columns of the frame
FitData(df) ==
    [i \in 1..Len(df) |-> [title |-> df[i].title, price |-> df[i].price,
                           rating |-> df[i].rating, platform |-> df[i].platform]]

\* train_model.py 100-101: the rating column of X, in twentieths (a median of
\* two ratings in tenths can fall between them): a rating that is not a
\* number is filled with the median of the batch's numeric ratings, with 0
\* only when the batch has none
TrainRating(df) ==
    LET parsed == [i \in 1..Len(df) |-> ToNumeric(df[i].rating)]
        nums == SelectIdx(parsed, LAMBDA v : v # NaN)
        xs == SortAsc([i \in 1..Len(nums) |-> nums[i][1]])
        n == Len(xs)
        median == IF n = 0 THEN 0
                  ELSE IF n % 2 = 1 THEN 2 * xs[(n + 1) \div 2]
                  ELSE xs[n \div 2] + xs[n \div 2 + 1]
    IN  [i \in 1..Len(df) |-> IF parsed[i] = NaN THEN median ELSE 2 * parsed[i][1]]

\* train_model.py 127-132: the object dumped to model/scaler.pkl is the
\* StandardScaler itself, fitted on the 7 trainer columns (an ndarray)
TrainScaler(run, df) ==
    [class |-> "StandardScaler",
     fit   |-> [run |-> run, by |-> "train_and_save", columns |-> TrainColumns,
                data |-> FitData(df), rating |-> TrainRating(df)]]

ModelClass(name) == IF name = "rf" THEN "RandomForestRegressor" ELSE "LinearRegression"

\* train_model.py 144: model.fit(X_train_scaled, y_train); X_train_scaled is an
\* ndarray, so the fitted model records n_features_in_ and no feature_names_in_
FittedModel(name, run, df) ==
    [class             |-> ModelClass(name),
     n_features_in     |-> Len(TrainColumns),
     feature_names_in  |-> None,
     fit               |-> [run |-> run, by |-> "train_and_save",
                            columns |-> TrainColumns, data |-> FitData(df),
                            rating |-> TrainRating(df)]]

\* train_model.py 146-148: one (name, rmse, r2) tuple; the scores are opaque
ResultRow(name, run) == [Model |-> name, RMSE |-> <<"rmse", name, run>>, R2 |-> <<"r2", name, run>>]

TrIdle(out, run) == [pc |-> "idle", out |-> out, run |-> run, df |-> <<>>, results |-> <<>>]

\* train_and_save with the scaler file written before the batch is validated
TrainStartEarlyDump ==
    /\ tr.pc = "idle"
    /\ fe.pc = "idle"
    /\ runs < MaxRuns
    /\ runs' = runs + 1
    /\ model_dir' = [model_dir EXCEPT !["scaler"] = File(TrainScaler(runs', <<>>))]
    /\ tr' = IF DOMAIN outputs = {} THEN TrIdle("FileNotFoundError", runs')
             ELSE LET df == TrainClean(outputs[LatestFile(outputs)].rows)
                  IN  IF df = <<>> \/ ~SplitOk(Len(df)) THEN TrIdle("ValueError", runs')
                      ELSE [pc |-> "dump_scaler", out |-> "running", run |-> runs',
                            df |-> df, results |-> <<>>]
    /\ UNCHANGED <<now, outputs, fe, pr>>

\* train_model.py 50-129: everything before the first write
TrainStart ==
    /\ tr.pc = "idle"
    /\ fe.pc = "idle"          \* one writer of model/ at a time
    /\ runs < MaxRuns
    /\ runs' = runs + 1
    /\ IF DOMAIN outputs = {}
       THEN tr' = TrIdle("FileNotFoundError", runs')                        \* 53-54
       ELSE LET df == TrainClean(outputs[LatestFile(outputs)].rows)
            IN  IF df = <<>>
                THEN tr' = TrIdle("ValueError", runs')                 \* 78-79
                ELSE IF ~SplitOk(Len(df))
                THEN tr' = TrIdle("ValueError", runs')                 \* 123-125
                ELSE tr' = [pc |-> "dump_scaler", out |-> "running", run |-> runs',
                            df |-> df, results |-> <<>>]
    /\ UNCHANGED <<now, outputs, model_dir, fe, pr>>

\* train_and_save holding the scaler back instead of dumping it first
TrainDumpScalerDeferred ==
    /\ tr.pc = "dump_scaler"
    /\ tr' = [tr EXCEPT !.pc = "rf"]
    /\ UNCHANGED <<now, outputs, model_dir, runs, fe, pr>>

\* train_model.py 131-132
TrainDumpScaler ==
    /\ tr.pc = "dump_scaler"
    /\ model_dir' = [model_dir EXCEPT !["scaler"] = File(TrainScaler(tr.run, tr.df))]
    /\ tr' = [tr EXCEPT !.pc = "rf"]
    /\ UNCHANGED <<now, outputs, runs, fe, pr>>

\* train_model.py 143-150, one pass of the loop over {"rf", "lr"}: fit, score,
\* dump.  fit/predict may raise (fitOk = FALSE); nothing catches it.
TrainModel(name, fitOk) ==
    /\ tr.pc = name
    /\ IF fitOk
       THEN /\ model_dir' = [model_dir EXCEPT ![name \o "_model"] =
                                File(FittedModel(name, tr.run, tr.df))]
            /\ tr' = [tr EXCEPT !.pc = IF name = "rf" THEN "lr" ELSE "performance",
                                !.results = Append(@, ResultRow(name, tr.run))]
       ELSE /\ tr' = TrIdle("FitError:" \o name, tr.run)
            /\ UNCHANGED model_dir
    /\ UNCHANGED <<now, outputs, runs, fe, pr>>

\* train_and_save appending to model_performance.csv (to_csv(mode="a"))
TrainPerformanceAppend ==
    /\ tr.pc = "performance"
    /\ model_dir' = [model_dir EXCEPT !["model_performance"] =
                        IF @.exists THEN File(@.obj \o tr.results) ELSE File(tr.results)]
    /\ tr' = TrIdle("ok", tr.run)
    /\ UNCHANGED <<now, outputs, runs, fe, pr>>

\* train_model.py 155-159
TrainPerformance ==
    /\ tr.pc = "performance"
    /\ model_dir' = [model_dir EXCEPT !["model_performance"] = File(tr.results)]
    /\ tr' = TrIdle("ok", tr.run)
    /\ UNCHANGED <<now, outputs, runs, fe, pr>>

\* ----------------------------------------------- clean_and_feature_engineer
LowerCase == <<"a", "b", "c", "d", "e", "f", "g", "h", "i", "j", "k", "l", "m",
               "n", "o", "p", "q", "r", "s", "t", "u", "v", "w", "x", "y", "z">>
UpperCase == <<"A", "B", "C", "D", "E", "F", "G", "H", "I", "J", "K", "L", "M",
               "N", "O", "P", "Q", "R", "S", "T", "U", "V", "W", "X", "Y", "Z">>

ToUpper(c) == IF c \in Range(LowerCase)
              THEN UpperCase[CHOOSE i \in 1..Len(LowerCase) : LowerCase[i] = c] ELSE c
ToLower(c) == IF c \in Range(UpperCase)
              THEN LowerCase[CHOOSE i \in 1..Len(UpperCase) : UpperCase[i] = c] ELSE c

IsAlnum(c) == c \in Range(LowerCase) \cup Range(UpperCase) \cup Digits
IsWordChar(c) == IsAlnum(c) \/ c = "_"

\* the strings pd.read_csv reads as NaN, among those the inputs can hold
CsvNA == {<<>>, T_NA}

\* a title column read back from the batch file, after astype(str)
CsvTitle(t) == IF t \in CsvNA THEN <<"n", "a", "n">> ELSE t

\* preprocessing.py 28-31: drop every character but digits and ".", then
\* pd.to_numeric(errors="coerce")
FePrice(s) ==
    LET t == SelectIdx(s, LAMBDA c : c \in Digits \cup {"."})
        dots == {i \in 1..Len(t) : t[i] = "."}
    IN  IF Cardinality(dots) > 1 \/ Len(t) = Cardinality(dots) THEN NaN
        ELSE IF dots = {} THEN <<Hundredths(t, <<>>)>>
        ELSE LET d == CHOOSE i \in dots : TRUE
             IN  <<Hundredths(SubSeq(t, 1, d - 1), SubSeq(t, d + 1, Len(t)))>>

\* Series.quantile(0.01) and (0.99), times 100, of n >= 2 sorted prices (linear
\* interpolation; for n <= 100 both fall between the two outermost values)
Q01x100(xs) == 100 * xs[1] + (Len(xs) - 1) * (xs[2] - xs[1])
Q99x100(xs) ==
    LET n == Len(xs) IN 100 * xs[n - 1] + (100 - (n - 1)) * (xs[n] - xs[n - 1])

\* preprocessing.py 36-37: keep the rows whose price lies between the 1st and
\* the 99th percentile of the batch
Trim(df) ==
    LET xs == SortAsc([i \in 1..Len(df) |-> df[i].price])
    IN  IF Len(df) <= 1 THEN df
        ELSE SelectIdx(df, LAMBDA r : Q01x100(xs) <= 100 * r.price
                                      /\ 100 * r.price <= Q99x100(xs))

\* preprocessing.py 40-45: ^([A-Za-z0-9]+), "UNKNOWN" when it does not match, upper
Brand(title) ==
    LET stops == {i \in 1..Len(title) : ~IsAlnum(title[i])}
        k == IF stops = {} THEN Len(title) ELSE Min(stops) - 1
    IN  IF k = 0 THEN <<"U", "N", "K", "N", "O", "W", "N">>
        ELSE [i \in 1..k |-> ToUpper(title[i])]

\* str.contains(word, case=False)
Contains(title, word) ==
    \E i \in 1..(Len(title) - Len(word) + 1) :
        \A j \in 1..Len(word) : ToLower(title[i + j - 1]) = ToLower(word[j])

\* str.contains(r"\bFE\b", case=False)
ContainsWord(title, word) ==
    \E i \in 1..(Len(title) - Len(word) + 1) :
        /\ \A j \in 1..Len(word) : ToLower(title[i + j - 1]) = ToLower(word[j])
        /\ (i = 1 \/ ~IsWordChar(title[i - 1]))
        /\ (i + Len(word) > Len(title) \/ ~IsWordChar(title[i + Len(word)]))

\* (datetime.now() - timestamp).dt.days: whole days, rounded down
DaysSince(t, stamp) ==
    IF t >= stamp THEN (t - stamp) \div 86400 ELSE 0 - ((stamp - t + 86399) \div 86400)

\* preprocessing.py 20-60: the frame before the brand statistics are merged in
FeFrame(rows, t) ==
    LET titled == [i \in 1..Len(rows) |-> [rows[i] EXCEPT !.title = CsvTitle(@),
                                                          !.price = FePrice(@)]]
        kept == SelectIdx(titled, LAMBDA r : ValidPrice(r.price))
        priced == [i \in 1..Len(kept) |-> [kept[i] EXCEPT !.price = @[1]]]
        trimmed == Trim(priced)
    IN  [i \in 1..Len(trimmed) |->
            LET r == trimmed[i]
            IN  [title      |-> r.title,
                 price      |-> r.price,
                 brand      |-> Brand(r.title),
                 rating     |-> FillNa(ToNumeric(r.rating), 0),
                 days_since |-> DaysSince(t, r.timestamp),
                 is_ultra   |-> IF Contains(r.title, <<"u", "l", "t", "r", "a">>) THEN 1 ELSE 0,
                 is_fe      |-> IF ContainsWord(r.title, <<"F", "E">>) THEN 1 ELSE 0,
                 title_len  |-> Len(r.title),
                 platform   |-> r.platform]]

SumSeq(s) ==
    LET F[i \in 0..Len(s)] == IF i = 0 THEN 0 ELSE F[i - 1] + s[i]
    IN  F[Len(s)]

\* A standard deviation is not evaluated (it is a square root): it is kept as
\* the sorted prices it is the sample deviation of, and a deviation of 0 as
\* ZeroStd.
ZeroStd == [std_of |-> <<>>]
Std(ps) == IF \A i, j \in 1..Len(ps) : ps[i] = ps[j] THEN ZeroStd
           ELSE [std_of |-> SortAsc(ps)]

\* preprocessing.py 63-67: groupby("brand")["price"].agg(["mean", "std"]).
\* The mean is the fraction <<sum, n>>; the sample deviation of one row is NaN.
BrandStats(df) ==
    LET brands == {df[i].brand : i \in 1..Len(df)}
    IN  [b \in brands |->
            LET rs == SelectIdx(df, LAMBDA r : r.brand = b)
                ps == [i \in 1..Len(rs) |-> rs[i].price]
            IN  [brand_mean |-> <<SumSeq(ps), Len(ps)>>,
                 brand_std  |-> IF Len(ps) = 1 THEN NaN ELSE <<Std(ps)>>]]

\* numpy's sorted order of the platform values that can occur
PlatformOrder == <<"Amazon", "Flipkart", "Unknown">>

\* preprocessing.py 85-86: OneHotEncoder.fit: the sorted distinct values
Categories(df) ==
    SelectIdx(PlatformOrder, LAMBDA p : \E i \in 1..Len(df) : df[i].platform = p)

\* the encoder fitted with OneHotEncoder's default handle_unknown="error"
FitEncoderStrict(run, df) ==
    [class          |-> "OneHotEncoder",
     handle_unknown |-> "error",
     categories     |-> Categories(df),
     fit            |-> [run |-> run, by |-> "clean_and_feature_engineer", data |-> df]]

\* preprocessing.py 85-86
FitEncoder(run, df) ==
    [class          |-> "OneHotEncoder",
     handle_unknown |-> "ignore",
     categories     |-> Categories(df),
     fit            |-> [run |-> run, by |-> "clean_and_feature_engineer", data |-> df]]

\* preprocessing.py 102
numeric_cols == <<"rating", "days_since", "title_len", "brand_mean", "brand_std">>

\* preprocessing.py 94
base_features == <<"rating", "days_since", "is_ultra", "is_fe", "title_len",
                   "brand_mean", "brand_std">>

\* preprocessing.py 89 / 168
PlatformCols(enc) == [i \in 1..Len(enc.categories) |-> "platform_" \o enc.categories[i]]

\* preprocessing.py 104-106: the object dumped to model/scaler.pkl is a dict
FeScalerObj(run, df) ==
    [class   |-> "dict",
     scaler  |-> [class |-> "StandardScaler",
                  fit   |-> [run |-> run, by |-> "clean_and_feature_engineer",
                             columns |-> numeric_cols, data |-> df]],
     columns |-> numeric_cols]

FeIdle(out, run) == [pc |-> "idle", out |-> out, run |-> run, df |-> <<>>, enc |-> None]

\* preprocessing.py 12-67: read the batch at path and build the frame
FeStart(path) ==
    /\ fe.pc = "idle"
    /\ tr.pc = "idle"          \* one writer of model/ at a time
    /\ runs < MaxRuns
    /\ runs' = runs + 1
    /\ IF path \notin DOMAIN outputs
       THEN fe' = FeIdle("FileNotFoundError", runs')                        \* 17
       ELSE LET rows == outputs[path].rows
                columns == DOMAIN rows[1]
            IN  IF "title" \notin columns /\ "name" \notin columns
                THEN fe' = FeIdle("ValueError", runs')                 \* 25
                ELSE fe' = [pc |-> "brand_stats", out |-> "running", run |-> runs',
                            df |-> FeFrame(rows, now), enc |-> None]
    /\ UNCHANGED <<now, outputs, model_dir, tr, pr>>

\* preprocessing.py 70
FeBrandStats ==
    /\ fe.pc = "brand_stats"
    /\ model_dir' = [model_dir EXCEPT !["brand_stats"] =
                        File([run |-> fe.run, table |-> BrandStats(fe.df)])]
    /\ fe' = [fe EXCEPT !.pc = "encoder"]
    /\ UNCHANGED <<now, outputs, runs, tr, pr>>

\* preprocessing.py 80-87: an encoder already on disk is loaded and applied,
\* only a missing one is fitted and dumped; either way an empty frame raises
FeEncoder ==
    /\ fe.pc = "encoder"
    /\ IF fe.df = <<>>
       THEN /\ fe' = FeIdle("ValueError", fe.run)
            /\ UNCHANGED model_dir
       ELSE IF model_dir["platform_encoder"].exists
       THEN /\ fe' = [fe EXCEPT !.pc = "scaler", !.enc = <<model_dir["platform_encoder"].obj>>]
            /\ UNCHANGED model_dir
       ELSE /\ fe' = [fe EXCEPT !.pc = "scaler", !.enc = <<FitEncoder(fe.run, fe.df)>>]
            /\ model_dir' = [model_dir EXCEPT !["platform_encoder"] =
                                File(FitEncoder(fe.run, fe.df))]
    /\ UNCHANGED <<now, outputs, runs, tr, pr>>

\* preprocessing.py 100-113: dump the scaler dict, then split
FeScaler ==
    /\ fe.pc = "scaler"
    /\ model_dir' = [model_dir EXCEPT !["scaler"] = File(FeScalerObj(fe.run, fe.df))]
    /\ fe' = FeIdle(IF SplitOk(Len(fe.df)) THEN "ok" ELSE "ValueError", fe.run)
    /\ UNCHANGED <<now, outputs, runs, tr, pr>>

\* ------------------------------------- predict_price, preprocess_single_record
\* fractions <<numerator, denominator>>, in lowest terms
GCD(a, b) ==
    LET F[x \in 0..a, y \in 0..b] ==
            IF y = 0 THEN x ELSE IF x = 0 THEN y
            ELSE IF x >= y THEN F[x % y, y] ELSE F[x, y % x]
    IN  F[a, b]

Frac(n, d) == LET g == GCD(n, d) IN IF g = 0 THEN <<0, 1>> ELSE <<n \div g, d \div g>>
FracAdd(p, q) == Frac(p[1] * q[2] + q[1] * p[2], p[2] * q[2])
Zero == Frac(0, 1)

\* what callers pass: main.py 83-88 builds a dict; anything else is not a dict
R_Ultra   == [title |-> T_SamUltra, platform |-> "Amazon", rating |-> "4.5", timestamp |-> <<>>]
R_Oppo    == [name |-> T_Oppo, platform |-> "Snapdeal", rating |-> "N/A"]
R_NoTitle == [platform |-> "Amazon", rating |-> "4.5"]
R_Title   == [title |-> T_SamFE]
R_Vivo    == [title |-> T_Vivo, platform |-> "Flipkart", rating |-> "4.0"]
\* main.py 81: the user types the date; here the day after the processing time
R_Future  == [title |-> T_SamUltra, platform |-> "Amazon", rating |-> "4.5",
              timestamp |-> <<86400>>]

Dict(fields) == [isdict |-> TRUE, fields |-> fields]
NotADict == [isdict |-> FALSE]

PredictInputs == {Dict(R_Ultra), NotADict}

ModelNames == {"rf", "lr"}

\* out is how the last call ended, with the place of the raise.  missing: the
\* artifacts the call found absent.  fresh: the call was made with a usable
\* record right after a successful train_and_save, nothing but train_and_save
\* having written to model/.
PrIdle(out) ==
    [pc |-> "idle", out |-> out, record |-> <<>>, model_name |-> "", model |-> None,
     enc |-> None, scaler_obj |-> None, brand_stats |-> None, missing |-> {},
     X |-> None, price |-> None, fresh |-> FALSE]

\* preprocessing.py 149, 158, 166: df.get(key, default) hands back the default
\* itself when the key is missing, and a str / int has no astype / fillna
Usable(rec) ==
    /\ "title" \in DOMAIN rec \/ "name" \in DOMAIN rec
    /\ "rating" \in DOMAIN rec
    /\ "platform" \in DOMAIN rec

Fresh(rec) ==
    /\ Usable(rec)
    /\ tr.pc = "idle" /\ tr.out = "ok"
    /\ fe.pc = "idle" /\ fe.run = 0

\* predict_price preprocessing the record before it looks for the model file
predict_priceEncoderFirst(input, model_name) ==
    /\ pr.pc = "idle"
    /\ IF ~input.isdict
       THEN pr' = PrIdle("TypeError:record")
       ELSE IF ~model_dir["platform_encoder"].exists
       THEN pr' = [PrIdle("FileNotFoundError:encoder") EXCEPT
                      !.fresh = Fresh(input.fields),
                      !.missing = {"platform_encoder"}]
       ELSE IF ~model_dir[model_name \o "_model"].exists
       THEN pr' = [PrIdle("FileNotFoundError:model") EXCEPT
                      !.fresh = Fresh(input.fields),
                      !.missing = {model_name \o "_model"}]
       ELSE pr' = [PrIdle("running") EXCEPT
                      !.pc = "check_encoder", !.record = input.fields,
                      !.model_name = model_name, !.fresh = Fresh(input.fields),
                      !.model = <<model_dir[model_name \o "_model"].obj>>]
    /\ UNCHANGED <<now, outputs, model_dir, runs, tr, fe>>

\* predict_price looking for the model file before it validates the record
predict_priceModelFirst(input, model_name) ==
    /\ pr.pc = "idle"
    /\ IF ~model_dir[model_name \o "_model"].exists
       THEN pr' = [PrIdle("FileNotFoundError:model") EXCEPT
                      !.missing = {model_name \o "_model"}]
       ELSE IF ~input.isdict
       THEN pr' = PrIdle("TypeError:record")
       ELSE pr' = [PrIdle("running") EXCEPT
                      !.pc = "check_encoder", !.record = input.fields,
                      !.model_name = model_name, !.fresh = Fresh(input.fields),
                      !.model = <<model_dir[model_name \o "_model"].obj>>]
    /\ UNCHANGED <<now, outputs, model_dir, runs, tr, fe>>

\* predict.py 17-29: validate the input, then load the named model
predict_price(input, model_name) ==
    /\ pr.pc = "idle"
    /\ IF ~input.isdict
       THEN pr' = PrIdle("TypeError:record")                               \* 17-18
       ELSE IF ~model_dir[model_name \o "_model"].exists
       THEN pr' = [PrIdle("FileNotFoundError:model") EXCEPT
                      !.fresh = Fresh(input.fields),
                      !.missing = {model_name \o "_model"}]                \* 26-27
       ELSE pr' = [PrIdle("running") EXCEPT
                      !.pc = "check_encoder", !.record = input.fields,
                      !.model_name = model_name, !.fresh = Fresh(input.fields),
                      !.model = <<model_dir[model_name \o "_model"].obj>>] \* 29
    /\ UNCHANGED <<now, outputs, model_dir, runs, tr, fe>>

\* the call returns or raises: its locals are gone
Return(out) == [PrIdle(out) EXCEPT !.missing = pr.missing, !.fresh = pr.fresh]
Raise(err) == Return(err)

\* preprocessing.py 135-136
CheckEncoder ==
    /\ pr.pc = "check_encoder"
    /\ IF model_dir["platform_encoder"].exists
       THEN pr' = [pr EXCEPT !.pc = "check_scaler"]
       ELSE pr' = [Raise("FileNotFoundError:encoder") EXCEPT
                      !.missing = @ \cup {"platform_encoder"}]
    /\ UNCHANGED <<now, outputs, model_dir, runs, tr, fe>>

\* preprocessing.py 137-138
CheckScaler ==
    /\ pr.pc = "check_scaler"
    /\ IF model_dir["scaler"].exists
       THEN pr' = [pr EXCEPT !.pc = "load_encoder"]
       ELSE pr' = [Raise("FileNotFoundError:scaler") EXCEPT !.missing = @ \cup {"scaler"}]
    /\ UNCHANGED <<now, outputs, model_dir, runs, tr, fe>>

\* preprocessing.py 140
LoadEncoder ==
    /\ pr.pc = "load_encoder"
    /\ pr' = [pr EXCEPT !.pc = "load_scaler", !.enc = <<model_dir["platform_encoder"].obj>>]
    /\ UNCHANGED <<now, outputs, model_dir, runs, tr, fe>>

\* preprocess_single_record repairing a bare scaler file in place
LoadScalerRepair ==
    /\ pr.pc = "load_scaler"
    /\ LET scaler_obj == model_dir["scaler"].obj
           dict == IF scaler_obj.class = "dict" THEN scaler_obj
                   ELSE [class |-> "dict", scaler |-> scaler_obj, columns |-> numeric_cols]
       IN  /\ pr' = [pr EXCEPT !.pc = "features", !.scaler_obj = <<dict>>]
           /\ model_dir' = [model_dir EXCEPT !["scaler"] = File(dict)]
    /\ UNCHANGED <<now, outputs, runs, tr, fe>>

\* preprocessing.py 141-143: scaler_obj["scaler"] needs the dict
LoadScaler ==
    /\ pr.pc = "load_scaler"
    /\ LET scaler_obj == model_dir["scaler"].obj
       IN  IF scaler_obj.class = "dict"
           THEN pr' = [pr EXCEPT !.pc = "features", !.scaler_obj = <<scaler_obj>>]
           ELSE pr' = Raise("TypeError:scaler_obj")
    /\ UNCHANGED <<now, outputs, model_dir, runs, tr, fe>>

\* preprocessing.py 159-160 and 197: a missing timestamp is now, an unparseable
\* one is NaT, whose day count is NaN and filled with 0
RecordDays(rec, t) ==
    IF "timestamp" \notin DOMAIN rec THEN 0
    ELSE IF rec.timestamp = <<>> THEN 0
    ELSE DaysSince(t, rec.timestamp[1])

\* preprocessing.py 184-188: left merge on brand, then the fallbacks
\* (global_mean is the mean of the stored brand means)
BrandLookup(table, brand) ==
    LET brands == DOMAIN table
        k == Cardinality(brands)
        SumMeans[S \in SUBSET brands] ==
            IF S = {} THEN Zero
            ELSE LET b == CHOOSE x \in S : TRUE
                 IN  FracAdd(Frac(table[b].brand_mean[1], table[b].brand_mean[2]),
                             SumMeans[S \ {b}])
        global_mean == IF k = 0 THEN Zero
                       ELSE Frac(SumMeans[brands][1], SumMeans[brands][2] * k)
    IN  IF brand \in brands
        THEN [brand_mean |-> Frac(table[brand].brand_mean[1], table[brand].brand_mean[2]),
              brand_std  |-> IF table[brand].brand_std = NaN THEN ZeroStd
                             ELSE table[brand].brand_std[1]]
        ELSE [brand_mean |-> global_mean, brand_std |-> ZeroStd]

\* the last-resort fallback with a unit deviation instead of 0
BrandFallbackUnit == [brand_mean |-> Zero, brand_std |-> [std_of |-> <<0, 1>>]]

\* preprocessing.py 191-192
BrandFallback == [brand_mean |-> Zero, brand_std |-> ZeroStd]

\* preprocessing.py 146-202: the one-row frame X.  The numeric columns are
\* transformed by the loaded scaler: X records the values that go in and the
\* scaler that is applied to them.
FeatureRow(rec, enc, scaler_obj, stats, t) ==
    LET title == IF "title" \in DOMAIN rec THEN rec.title ELSE rec.name
        platform_cols == PlatformCols(enc)
        brand == stats
        values ==
            [c \in Range(base_features) \cup Range(platform_cols) |->
                CASE c = "rating"     -> FillNa(ToNumeric(rec.rating), 0)
                  [] c = "days_since" -> RecordDays(rec, t)
                  [] c = "is_ultra"   -> IF Contains(title, <<"u", "l", "t", "r", "a">>) THEN 1 ELSE 0
                  [] c = "is_fe"      -> IF ContainsWord(title, <<"F", "E">>) THEN 1 ELSE 0
                  [] c = "title_len"  -> Len(title)
                  [] c = "brand_mean" -> brand.brand_mean
                  [] c = "brand_std"  -> brand.brand_std
                  [] OTHER            -> IF c = "platform_" \o rec.platform THEN 1 ELSE 0]
    IN  [columns |-> base_features \o platform_cols,
         values  |-> values,
         scaled  |-> [columns |-> scaler_obj.columns, by |-> scaler_obj.scaler.fit]]

\* preprocess_single_record refitting the scaler on the record it is given
\* (fit_transform in place of transform)
FeaturesRefit ==
    /\ pr.pc = "features"
    /\ IF ~Usable(pr.record)
       THEN pr' = Raise("AttributeError:record")
       ELSE IF /\ pr.record.platform \notin Range(pr.enc[1].categories)
               /\ pr.enc[1].handle_unknown # "ignore"
       THEN pr' = Raise("ValueError:platform")         \* 167: enc.transform
       ELSE LET title == IF "title" \in DOMAIN pr.record THEN pr.record.title
                         ELSE pr.record.name
                there == model_dir["brand_stats"].exists
                stats == IF there
                         THEN BrandLookup(model_dir["brand_stats"].obj.table, Brand(title))
                         ELSE BrandFallback
                refit == [pr.scaler_obj[1] EXCEPT !.scaler.fit.data = <<pr.record>>]
            IN  pr' = [pr EXCEPT
                          !.pc = "invoke",
                          !.brand_stats = IF there THEN <<model_dir["brand_stats"].obj>> ELSE None,
                          !.missing = IF there THEN @ ELSE @ \cup {"brand_stats"},
                          !.X = <<FeatureRow(pr.record, pr.enc[1], refit, stats, now)>>]
    /\ UNCHANGED <<now, outputs, model_dir, runs, tr, fe>>

\* preprocessing.py 146-202
Features ==
    /\ pr.pc = "features"
    /\ IF ~Usable(pr.record)
       THEN pr' = Raise("AttributeError:record")
       ELSE IF /\ pr.record.platform \notin Range(pr.enc[1].categories)
               /\ pr.enc[1].handle_unknown # "ignore"
       THEN pr' = Raise("ValueError:platform")         \* 167: enc.transform
       ELSE LET title == IF "title" \in DOMAIN pr.record THEN pr.record.title
                         ELSE pr.record.name
                there == model_dir["brand_stats"].exists                 \* 178
                stats == IF there
                         THEN BrandLookup(model_dir["brand_stats"].obj.table, Brand(title))
                         ELSE BrandFallback
            IN  pr' = [pr EXCEPT
                          !.pc = "invoke",
                          !.brand_stats = IF there THEN <<model_dir["brand_stats"].obj>> ELSE None,
                          !.missing = IF there THEN @ ELSE @ \cup {"brand_stats"},
                          !.X = <<FeatureRow(pr.record, pr.enc[1], pr.scaler_obj[1], stats, now)>>]
    /\ UNCHANGED <<now, outputs, model_dir, runs, tr, fe>>

\* predict_price adding the columns the model expects and the row lacks, but
\* keeping the row's other columns (without X = X[expected_features])
AlignKeepExtras(X, model) ==
    IF model.feature_names_in = None THEN X
    ELSE LET expected == model.feature_names_in[1]
             missing == SelectIdx(expected, LAMBDA c : c \notin Range(X.columns))
         IN  [X EXCEPT !.columns = X.columns \o missing,
                       !.values = [c \in Range(X.columns) \cup Range(missing) |->
                                      IF c \in DOMAIN X.values THEN X.values[c] ELSE 0]]

\* predict.py 41-46: reindex to the model's recorded feature names, if any
Align(X, model) ==
    IF model.feature_names_in = None THEN X
    ELSE LET expected == model.feature_names_in[1]
         IN  [X EXCEPT !.columns = expected,
                       !.values = [c \in Range(expected) |->
                                      IF c \in DOMAIN X.values THEN X.values[c] ELSE 0]]

\* what model.predict can return for a row, as the price expm1 maps it to:
\* a forest averages training targets, a linear model can leave their range
Predictions(model) ==
    LET ps == {model.fit.data[i].price : i \in 1..Len(model.fit.data)}
    IN  IF model.class = "RandomForestRegressor" THEN {Min(ps), Max(ps)}
        ELSE {Min(ps), Max(ps), Max(ps) + 1, 0 - 1}

\* predict_price handing back 0 when model.predict raises
InvokePlaceholder ==
    /\ pr.pc = "invoke"
    /\ LET X == Align(pr.X[1], pr.model[1])
       IN  IF Len(X.columns) # pr.model[1].n_features_in
           THEN pr' = [Return("ok") EXCEPT !.price = <<0>>]
           ELSE \E p \in Predictions(pr.model[1]) :
                    pr' = [Return("ok") EXCEPT !.price = <<p>>]
    /\ UNCHANGED <<now, outputs, model_dir, runs, tr, fe>>

\* predict.py 41-64: align, invoke the model, undo the log, round
Invoke ==
    /\ pr.pc = "invoke"
    /\ LET X == Align(pr.X[1], pr.model[1])
       IN  IF Len(X.columns) # pr.model[1].n_features_in
           THEN pr' = Raise("RuntimeError:predict")                    \* 53-54
           ELSE \E p \in Predictions(pr.model[1]) :
                    pr' = [Return("ok") EXCEPT !.price = <<p>>]
    /\ UNCHANGED <<now, outputs, model_dir, runs, tr, fe>>

\* ---------------------------------------------------------- specification
Init ==
    /\ now = 0
    /\ outputs = <<>>
    /\ model_dir = [a \in Artifacts |-> NoFile]
    /\ runs = 0
    /\ tr = TrIdle("none", 0)
    /\ fe = FeIdle("none", 0)
    /\ pr = PrIdle("none")

Next ==
    \/ Tick
    \/ \E data \in RawInputs : save_scraped_data(data)
    \/ TrainStart
    \/ TrainDumpScaler
    \/ \E name \in ModelNames, fitOk \in BOOLEAN : TrainModel(name, fitOk)
    \/ TrainPerformance
    \/ \E path \in 0..MaxClock : FeStart(path)
    \/ FeBrandStats
    \/ FeEncoder
    \/ FeScaler
    \/ \E input \in PredictInputs, model_name \in ModelNames : predict_price(input, model_name)
    \/ CheckEncoder
    \/ CheckScaler
    \/ LoadEncoder
    \/ LoadScaler
    \/ Features
    \/ Invoke

Spec == Init /\ [][Next]_vars

\* ------------------------------------------------ inference on any model/
\* preprocess_single_record and predict_price as functions of the record and
\* of the contents of model/: every artifact is absent or is one the training
\* code can have dumped, in every combination, and only predictions run.
SampleFrame == FeFrame(Unified(RawA, 0), 0)
SampleTrainFrame == TrainClean(Unified(RawB, 0))

\* spec.md 4.4, the Trainer behind app.py (models/modeltrainer.py is not among
\* the source files): the two regressors are fitted on the (X_train, y_train)
\* of the feature engineer's fit mode.  X is a DataFrame, so the fitted model
\* records its feature names.
EvaluatedModel(name, run, df, enc) ==
    [class             |-> ModelClass(name),
     n_features_in     |-> Len(base_features \o PlatformCols(enc)),
     feature_names_in  |-> <<base_features \o PlatformCols(enc)>>,
     fit               |-> [run |-> run, by |-> "train_and_evaluate_models",
                            columns |-> base_features \o PlatformCols(enc),
                            data |-> FitData(df)]]

\* the object found at artifact a, dumped by a run made before the ones that
\* are counted (run 0); the scaler is the dict of clean_and_feature_engineer or
\* the bare scaler of train_and_save, the models are those of train_and_save
\* or (evaluated) those of the Trainer of spec.md 4.4
SampleFile(a, bare, evaluated) ==
    CASE a = "scaler" -> IF bare THEN File(TrainScaler(0, SampleTrainFrame))
                         ELSE File(FeScalerObj(0, SampleFrame))
      [] a \in {"rf_model", "lr_model"} ->
            LET name == IF a = "rf_model" THEN "rf" ELSE "lr"
            IN  IF evaluated
                THEN File(EvaluatedModel(name, 0, SampleFrame, FitEncoder(0, SampleFrame)))
                ELSE File(FittedModel(name, 0, SampleTrainFrame))
      [] a = "platform_encoder" -> File(FitEncoder(0, SampleFrame))
      [] a = "brand_stats" -> File([run |-> 0, table |-> BrandStats(SampleFrame)])
      [] a = "model_performance" -> File(<<ResultRow("rf", 0), ResultRow("lr", 0)>>)

SampleDir(present, bare, evaluated) ==
    [a \in Artifacts |-> IF a \in present THEN SampleFile(a, bare, evaluated) ELSE NoFile]

\* model/ as SampleDir has it, but with models the Trainer fitted while model/
\* held another platform encoder (that of a batch from Flipkart and an unnamed
\* platform): their expected feature names are not those of today's rows
SampleDriftFrame == FeFrame(Unified(RawC, 0), 0)

DriftedDir(present, bare) ==
    [a \in Artifacts |->
        IF a \in present /\ a \in {"rf_model", "lr_model"}
        THEN File(EvaluatedModel(IF a = "rf_model" THEN "rf" ELSE "lr", 0, SampleDriftFrame,
                                 FitEncoder(0, SampleDriftFrame)))
        ELSE SampleDir(present, bare, TRUE)[a]]

InferenceInputs == {Dict(R_Ultra), Dict(R_Oppo), Dict(R_NoTitle), Dict(R_Title),
                    Dict(R_Vivo), Dict(R_Future), NotADict}

InitInference ==
    /\ now = 0
    /\ outputs = <<>>
    /\ \E present \in SUBSET Artifacts, bare \in BOOLEAN, evaluated \in BOOLEAN :
            \/ model_dir = SampleDir(present, bare, evaluated)
            \/ model_dir = DriftedDir(present, bare)
    /\ runs = 0
    /\ tr = TrIdle("none", 0)
    /\ fe = FeIdle("none", 0)
    /\ pr = PrIdle("none")

NextInference ==
    \/ \E input \in InferenceInputs, model_name \in ModelNames : predict_price(input, model_name)
    \/ CheckEncoder
    \/ CheckScaler
    \/ LoadEncoder
    \/ LoadScaler
    \/ Features
    \/ Invoke

SpecInference == InitInference /\ [][NextInference]_vars

\* --------------------------------------------- retraining a served model/
\* train_and_save run again while predictions are served: model/ holds every
\* artifact, left by an earlier clean_and_feature_engineer and train_and_save
\* (whichever of the two wrote the scaler last), and outputs/ holds one batch.
InitRetrain ==
    /\ now = 0
    /\ \E data \in {RawA, RawB, RawBad, RawOne} : outputs = WriteFile(<<>>, 0, Unified(data, 0))
    /\ \E bare \in BOOLEAN : model_dir = SampleDir(Artifacts, bare, FALSE)
    /\ runs = 0
    /\ tr = TrIdle("none", 0)
    /\ fe = FeIdle("none", 0)
    /\ pr = PrIdle("none")

NextRetrain ==
    \/ TrainStart
    \/ TrainDumpScaler
    \/ \E name \in ModelNames, fitOk \in BOOLEAN : TrainModel(name, fitOk)
    \/ TrainPerformance
    \/ \E input \in PredictInputs, model_name \in ModelNames : predict_price(input, model_name)
    \/ CheckEncoder
    \/ CheckScaler
    \/ LoadEncoder
    \/ LoadScaler
    \/ Features
    \/ Invoke

SpecRetrain == InitRetrain /\ [][NextRetrain]_vars

\* ------------------------------------------------- normalizing raw records
\* save_scraped_data as a function of the list it is given, applied once to an
\* empty outputs/: a raw item has no title key, a name only, an empty title
\* and a name, or both; no url key, an empty url and a link, or both; the
\* lists have up to MaxBatch items.
RawItems ==
    {t @@ u @@ [price |-> P_900] :
        t \in {<<>>, [name |-> T_SamFE], [title |-> <<>>, name |-> T_Oppo],
               [title |-> T_SamUltra, name |-> T_SamFE]},
        u \in {<<>>, [url |-> "", link |-> "u2"], [url |-> "u1", link |-> "u2"]}}

NormalizeInputs == UNION {[1..k -> RawItems] : k \in 0..MaxBatch}

InitNormalize ==
    /\ now = 0
    /\ outputs = <<>>
    /\ model_dir = [a \in Artifacts |-> NoFile]
    /\ runs = 0
    /\ tr = TrIdle("none", 0)
    /\ fe = FeIdle("none", 0)
    /\ pr = PrIdle("none")

SaveOnce ==
    /\ outputs = <<>>
    /\ \E data \in NormalizeInputs : save_scraped_data(data)

NextNormalize == SaveOnce

SpecNormalize == InitNormalize /\ [][NextNormalize]_vars

\* ------------------------------------------------ cleaning a training batch
\* The two training paths as functions of the batch they read: outputs/ holds
\* one batch of up to MaxBatch rows, saved from raw items whose title is plain,
\* starts with a bracket or is missing and whose price is one of the price
\* strings; one train_and_save or one clean_and_feature_engineer call runs.
CleanItems ==
    {t @@ [price |-> p, rating |-> "4.5", url |-> "u1", platform |-> "Amazon"] :
        t \in {<<>>, [title |-> T_SamUltra], [title |-> T_Paren]},
        p \in {P_1200a, P_1200b, P_1500a, P_Off, P_NA, P_Zero}}

CleanInputs == UNION {[1..k -> CleanItems] : k \in 1..MaxBatch}

InitClean ==
    /\ now = 0
    /\ \E data \in CleanInputs : outputs = WriteFile(<<>>, 0, Unified(data, 0))
    /\ model_dir = [a \in Artifacts |-> NoFile]
    /\ runs = 0
    /\ tr = TrIdle("none", 0)
    /\ fe = FeIdle("none", 0)
    /\ pr = PrIdle("none")

TrainOnce == runs = 0 /\ TrainStart

FeOnce == runs = 0 /\ FeStart(0)

NextClean ==
    \/ TrainOnce
    \/ TrainDumpScaler
    \/ \E name \in ModelNames, fitOk \in BOOLEAN : TrainModel(name, fitOk)
    \/ TrainPerformance
    \/ FeOnce
    \/ FeBrandStats
    \/ FeEncoder
    \/ FeScaler

SpecClean == InitClean /\ [][NextClean]_vars

\* ------------------------------------------------------- one run of main()
\* main.py 12-96, one run from the scrapers to the optional prediction.  main
\* is sequential and the only caller of save_scraped_data, train_and_save and
\* predict_price here, so where it stands shows in what it has done: it is
\* past step 4 once outputs/ holds a file stamped with the current second
\* (none does at the start), in step 5 while train_and_save runs, past it once
\* that call has ended, and in or past step 6 once predict_price has been
\* called.  A run that returns at the check of step 4 leaves no trace.  The
\* directories may hold the files of an earlier run of the pipeline, and the
\* other training path, clean_and_feature_engineer, may be called from outside
\* main while it runs.
Failed == [ok |-> FALSE]                         \* the scraper raised
Scraped(items) == [ok |-> TRUE, items |-> items] \* it returned this list

\* main.py 32-38, 43-49: a scraper that raised counts as an empty list
Items(outcome) == IF outcome.ok THEN outcome.items ELSE <<>>

AmazonA == SelectIdx(RawA, LAMBDA r : r.platform = "Amazon")
FlipkartA == SelectIdx(RawA, LAMBDA r : r.platform = "Flipkart")

AmazonOutcomes == {Failed, Scraped(<<>>), Scraped(AmazonA), Scraped(RawBad)}
FlipkartOutcomes == {Failed, Scraped(<<>>), Scraped(FlipkartA)}

\* main.py 83-88: the record typed in by the user
MainRecords == {R_Ultra, R_Future}

InitMain ==
    /\ now = MaxClock
    /\ \E old \in {<<>>, RawOne} :
            outputs = IF old = <<>> THEN <<>> ELSE WriteFile(<<>>, 0, Unified(old, 0))
    /\ \E present \in {{}, Artifacts} : model_dir = SampleDir(present, TRUE, FALSE)
    /\ runs = 0
    /\ tr = TrIdle("none", 0)
    /\ fe = FeIdle("none", 0)
    /\ pr = PrIdle("none")

\* main.py 29-60: both scrapers, combine, return if nothing was scraped, save
MainScrapeSave(amazon, flipkart) ==
    /\ now \notin DOMAIN outputs
    /\ tr.out = "none"
    /\ LET combined_data == Items(amazon) \o Items(flipkart)
       IN  IF combined_data = <<>>
           THEN UNCHANGED vars                                        \* 55-57
           ELSE save_scraped_data(combined_data)                      \* 59

\* main calling train_and_save whether or not a batch was saved
MainTrainUngated ==
    /\ tr.out = "none"
    /\ TrainStart

\* main.py 65-71: train_and_save is called after the save
MainTrain ==
    /\ now \in DOMAIN outputs
    /\ tr.out = "none"
    /\ TrainStart

\* main.py 69-91: an exception of train_and_save ends main; after a normal
\* return the user may ask for one prediction, from the rf model
MainPredict(record) ==
    /\ tr.pc = "idle"
    /\ tr.out = "ok"
    /\ pr.out = "none"
    /\ predict_price(Dict(record), "rf")

NextMain ==
    \/ \E amazon \in AmazonOutcomes, flipkart \in FlipkartOutcomes :
            MainScrapeSave(amazon, flipkart)
    \/ MainTrain
    \/ TrainDumpScaler
    \/ \E name \in ModelNames, fitOk \in BOOLEAN : TrainModel(name, fitOk)
    \/ TrainPerformance
    \/ \E path \in 0..MaxClock : FeStart(path)
    \/ FeBrandStats
    \/ FeEncoder
    \/ FeScaler
    \/ \E record \in MainRecords : MainPredict(record)
    \/ CheckEncoder
    \/ CheckScaler
    \/ LoadEncoder
    \/ LoadScaler
    \/ Features
    \/ Invoke

SpecMain == InitMain /\ [][NextMain]_vars

\* ------------------------------------------------------------ properties
\* C1: whenever a predict_price call reaches the model invocation, the feature
\* row handed to the model has the same columns, in the same order (hence the
\* same width), as the matrix the loaded model was fitted on by train_and_save.
C1_RowMatchesTrainingMatrix ==
    pr.pc = "invoke" =>
        Align(pr.X[1], pr.model[1]).columns = pr.model[1].fit.columns

\* C2: a predict_price call made with a record holding title, platform and
\* rating after train_and_save has completed successfully, model/ having been
\* empty at the start and written by train_and_save only, does not fail: it
\* returns a price, and the price lies between the 1st and the 99th percentile
\* of the prices of the batch a persisted model was trained on.
C2_PredictAfterTrainReturnsPrice ==
    (pr.pc = "idle" /\ pr.fresh) =>
        /\ pr.out = "ok"
        /\ pr.price # None
        /\ \E name \in ModelNames :
              LET f == model_dir[name \o "_model"]
                  xs == SortAsc([i \in 1..Len(f.obj.fit.data) |-> f.obj.fit.data[i].price])
              IN  /\ f.exists
                  /\ Q01x100(xs) <= 100 * pr.price[1]
                  /\ 100 * pr.price[1] <= Q99x100(xs)

\* C3: whenever model/scaler.pkl exists it holds both the fitted scaler and
\* the list of numeric column names, whichever training path wrote it last.
C3_ScalerHoldsScalerAndColumns ==
    model_dir["scaler"].exists =>
        LET obj == model_dir["scaler"].obj
        IN  /\ obj.class = "dict"
            /\ {"scaler", "columns"} \subseteq DOMAIN obj
            /\ obj.scaler.class = "StandardScaler"
            /\ obj.columns = numeric_cols

C5_PredictLeavesArtifacts ==
    [][pr' # pr => model_dir' = model_dir]_vars

\* a call has run to the model invocation and failed there, model/ holding
\* every artifact
C5_CallEndedOnFullModelDir ==
    /\ pr.pc = "idle"
    /\ pr.out = "RuntimeError:predict"
    /\ \A a \in Artifacts : model_dir[a].exists

\* C6: when the latest training run has completed, the brand statistics table,
\* the platform encoder and the scaler in model/ are all the ones that run
\* fitted on its batch.
C6_RunRewritesFittedState ==
    LET ScalerRun(obj) == IF obj.class = "dict" THEN obj.scaler.fit.run ELSE obj.fit.run
        Rewritten(r) ==
            /\ model_dir["brand_stats"].exists
            /\ model_dir["brand_stats"].obj.run = r
            /\ model_dir["platform_encoder"].exists
            /\ model_dir["platform_encoder"].obj.fit.run = r
            /\ model_dir["scaler"].exists
            /\ ScalerRun(model_dir["scaler"].obj) = r
    IN  /\ (tr.pc = "idle" /\ tr.out = "ok" /\ tr.run = runs) => Rewritten(tr.run)
        /\ (fe.pc = "idle" /\ fe.out = "ok" /\ fe.run = runs) => Rewritten(fe.run)

\* C7: a train_and_save call that finds no batch file, or a latest batch in
\* which no row has a valid price above 0, ends at once with an error and
\* leaves model/ as it was.
C7_NoBatchNoWrite ==
    [][(/\ tr'.run # tr.run
        /\ \/ DOMAIN outputs = {}
           \/ LET rows == outputs[LatestFile(outputs)].rows
              IN  \A i \in 1..Len(rows) : ~ValidPrice(TrainPrice(rows[i].price)))
       => (/\ tr'.pc = "idle"
           /\ tr'.out \in {"FileNotFoundError", "ValueError"}
           /\ model_dir' = model_dir)]_vars

\* train_and_save has failed on a batch without a valid price, and the
\* artifacts of the run before it are still there
C7_FailedRunKeptArtifacts ==
    /\ tr.pc = "idle"
    /\ tr.out = "ValueError"
    /\ tr.run = 2
    /\ model_dir["rf_model"].exists
    /\ model_dir["rf_model"].obj.fit.run = 1

\* C8: when train_and_save has ended on the failure of one model's fit or
\* scoring, the other model has still been fitted and persisted by that run.
C8_OtherModelStillPersisted ==
    /\ (tr.pc = "idle" /\ tr.out = "FitError:rf") =>
          /\ model_dir["lr_model"].exists
          /\ model_dir["lr_model"].obj.fit.run = tr.run
    /\ (tr.pc = "idle" /\ tr.out = "FitError:lr") =>
          /\ model_dir["rf_model"].exists
          /\ model_dir["rf_model"].obj.fit.run = tr.run

\* C9: once train_and_save has completed successfully, both model files exist
\* and model_performance.csv holds exactly one row for rf and one for lr.
C9_OneRowPerModel ==
    (tr.pc = "idle" /\ tr.out = "ok") =>
        /\ model_dir["rf_model"].exists
        /\ model_dir["lr_model"].exists
        /\ model_dir["model_performance"].exists
        /\ LET rows == model_dir["model_performance"].obj
           IN  /\ Len(rows) = Cardinality(ModelNames)
               /\ \A m \in ModelNames :
                     Cardinality({i \in 1..Len(rows) : rows[i].Model = m}) = 1

\* a second train_and_save has completed on top of the files of a first one
C9_SecondRunCompleted ==
    /\ tr.pc = "idle"
    /\ tr.out = "ok"
    /\ tr.run = 2
    /\ fe.run = 0

\* C10: while a predict_price call that has loaded its model is on its way to
\* the scaler and a later train_and_save run is between its scaler dump and
\* its return, the scaler the call finds in model/ is the one of that later
\* run, not of the run that fitted the model the call holds.
C10_TornArtifactSet ==
    (/\ pr.pc \in {"check_encoder", "check_scaler", "load_encoder", "load_scaler"}
     /\ tr.pc \in {"rf", "lr", "performance"}
     /\ pr.model[1].fit.run < tr.run)
    => /\ model_dir["scaler"].exists
       /\ model_dir["scaler"].obj.class = "StandardScaler"
       /\ model_dir["scaler"].obj.fit.run = tr.run
       /\ model_dir["scaler"].obj.fit.run # pr.model[1].fit.run

\* the call is about to load a scaler written by a later run than its model
C10_PredictSeesTornSet ==
    /\ pr.pc = "load_scaler"
    /\ tr.pc \in {"rf", "lr", "performance"}
    /\ pr.model[1].fit.run < tr.run
    /\ model_dir["scaler"].obj.fit.run # pr.model[1].fit.run

C12_InferenceRowIsTrainingRow ==
    (/\ pr.pc = "invoke"
     /\ \E i \in 1..Len(pr.model[1].fit.data) :
           LET row == pr.model[1].fit.data[i]
           IN  /\ "title" \in DOMAIN pr.record
               /\ row.title = pr.record.title
               /\ row.platform = pr.record.platform
               /\ row.rating = pr.record.rating)
    => /\ pr.X[1].columns = pr.model[1].fit.columns
       /\ DOMAIN pr.X[1].values = Range(pr.model[1].fit.columns)

\* C13 as stated: every predict_price call naming a model whose file is
\* absent fails with FileNotFoundError for the model, whatever else model/
\* holds, in its first step (nothing else of model/ has been looked at).
C13_ModelNotFoundWhenAbsent ==
    [][\A input \in InferenceInputs, model_name \in ModelNames :
          (predict_price(input, model_name) /\ ~model_dir[model_name \o "_model"].exists)
          => (/\ pr'.pc = "idle"
              /\ pr'.out = "FileNotFoundError:model"
              /\ pr'.missing = {model_name \o "_model"})]_vars

\* C13, amended: every predict_price call that is given a dict and names a
\* model whose file is absent fails with FileNotFoundError for the model,
\* whatever else model/ holds, in its first step: the model file is the only
\* one it has looked for, and no encoder, scaler or brand table is loaded.
C13_ModelNotFoundForDictRecord ==
    [][\A input \in InferenceInputs, model_name \in ModelNames :
          (/\ predict_price(input, model_name)
           /\ input.isdict
           /\ ~model_dir[model_name \o "_model"].exists)
          => (/\ pr'.pc = "idle"
              /\ pr'.out = "FileNotFoundError:model"
              /\ pr'.missing = {model_name \o "_model"}
              /\ pr'.enc = None /\ pr'.scaler_obj = None /\ pr'.brand_stats = None)]_vars

\* a call has failed on the absent rf model although encoder, scaler and
\* brand table are all there
C13_ModelAbsentOthersPresent ==
    /\ pr.pc = "idle"
    /\ pr.out = "FileNotFoundError:model"
    /\ pr.missing = {"rf_model"}
    /\ \A a \in {"platform_encoder", "scaler", "brand_stats"} : model_dir[a].exists

\* C14: every predict_price call whose record is not a dict fails with
\* TypeError in its first step, whatever model/ holds, without having looked
\* for or loaded any file of model/.
C14_TypeErrorForNonDict ==
    [][\A input \in InferenceInputs, model_name \in ModelNames :
          (predict_price(input, model_name) /\ ~input.isdict)
          => (/\ pr'.pc = "idle"
              /\ pr'.out = "TypeError:record"
              /\ pr'.missing = {}
              /\ pr'.model = None /\ pr'.enc = None
              /\ pr'.scaler_obj = None /\ pr'.brand_stats = None)]_vars

\* a call with a non-dict has failed on a model/ that holds no model file
C14_NonDictOnEmptyModels ==
    /\ pr.pc = "idle"
    /\ pr.out = "TypeError:record"
    /\ ~model_dir["rf_model"].exists
    /\ ~model_dir["lr_model"].exists

\* C15: a predict_price call ends with a price only from the model invocation,
\* on a row the loaded model accepts, model and feature row both in hand;
\* every other end of a call is an error raised to the caller with no price,
\* and a row the model does not accept ends the call with RuntimeError.
C15_PriceOnlyOnSuccess ==
    [][(pr'.pc = "idle" /\ pr' # pr) =>
          /\ pr'.price # None =>
                /\ pr.pc = "invoke"
                /\ pr.model # None /\ pr.X # None
                /\ Len(Align(pr.X[1], pr.model[1]).columns) = pr.model[1].n_features_in
                /\ pr'.out = "ok"
          /\ pr'.price = None =>
                pr'.out \in {"TypeError:record", "FileNotFoundError:model",
                             "FileNotFoundError:encoder", "FileNotFoundError:scaler",
                             "TypeError:scaler_obj", "AttributeError:record",
                             "ValueError:platform", "RuntimeError:predict"}
          /\ (/\ pr.pc = "invoke"
              /\ Len(Align(pr.X[1], pr.model[1]).columns) # pr.model[1].n_features_in)
             => (pr'.out = "RuntimeError:predict" /\ pr'.price = None)]_vars

\* a call has returned a price
C15_PriceReturned ==
    /\ pr.pc = "idle"
    /\ pr.out = "ok"
    /\ pr.price # None
    /\ pr.missing = {}

\* C16: every price a predict_price call returns is 0 or more, whatever the
\* record and whatever value the loaded model puts out.
C16_PriceNonNegative ==
    (pr.pc = "idle" /\ pr.price # None) => pr.price[1] >= 0

\* C17: no step removes a batch file from outputs/ or changes its rows: every
\* batch a save_scraped_data call has written stays there as it was written,
\* whatever the clock values of the later calls.
C17_BatchFilesKept ==
    [][\A n \in DOMAIN outputs :
          /\ n \in DOMAIN outputs'
          /\ outputs'[n].rows = outputs[n].rows]_vars

C19_UnseenPlatformAllZero ==
    /\ pr.out # "ValueError:platform"
    /\ pr.X # None =>
          LET cols == Range(PlatformCols(model_dir["platform_encoder"].obj))
              ones == {c \in cols : pr.X[1].values[c] = 1}
              known == pr.record.platform \in Range(model_dir["platform_encoder"].obj.categories)
          IN  /\ cols \subseteq DOMAIN pr.X[1].values
              /\ \A c \in cols : pr.X[1].values[c] \in {0, 1}
              /\ ~known => ones = {}
              /\ known => ones = {"platform_" \o pr.record.platform}

\* a row has been built for a record of platform Snapdeal, which the encoder
\* has not seen
C19_RowForUnseenPlatform ==
    /\ pr.pc = "invoke"
    /\ pr.X # None
    /\ pr.record.platform = "Snapdeal"
    /\ "Snapdeal" \notin Range(model_dir["platform_encoder"].obj.categories)
    /\ \A c \in Range(PlatformCols(model_dir["platform_encoder"].obj)) : pr.X[1].values[c] = 0

\* C20: in the feature row built at inference for a record whose brand is not
\* in the persisted brand table, brand_mean is the mean price over all the
\* rows of the batch the table was computed from, and brand_std is 0.
C20_AbsentBrandGetsGlobalMean ==
    (/\ pr.X # None
     /\ model_dir["brand_stats"].exists
     /\ "title" \in DOMAIN pr.record
     /\ Brand(pr.record.title) \notin DOMAIN model_dir["brand_stats"].obj.table)
    => LET table == model_dir["brand_stats"].obj.table
           Total[S \in SUBSET DOMAIN table] ==
               IF S = {} THEN <<0, 0>>
               ELSE LET b == CHOOSE x \in S : TRUE
                    IN  <<table[b].brand_mean[1] + Total[S \ {b}][1],
                          table[b].brand_mean[2] + Total[S \ {b}][2]>>
           all == Total[DOMAIN table]
       IN  /\ pr.X[1].values["brand_mean"] = Frac(all[1], all[2])
           /\ pr.X[1].values["brand_std"] = ZeroStd

\* C21: a feature engineer call on an input with neither a title nor a name
\* field fails with the missing-column ValueError and builds no features: in
\* fit mode when the batch file has neither column, in inference mode when the
\* record, the artifacts loaded, has neither key.
C21_MissingColumnWithoutTitle ==
    [][/\ \A path \in 0..MaxClock :
             (/\ FeStart(path)
              /\ path \in DOMAIN outputs
              /\ "title" \notin DOMAIN outputs[path].rows[1]
              /\ "name" \notin DOMAIN outputs[path].rows[1])
             => (fe'.pc = "idle" /\ fe'.out = "ValueError")
       /\ (/\ pr.pc = "features"
           /\ pr' # pr
           /\ "title" \notin DOMAIN pr.record
           /\ "name" \notin DOMAIN pr.record)
          => (/\ pr'.pc = "idle"
              /\ pr'.out = "ValueError:title"
              /\ pr'.X = None)]_vars

\* C22: a clean_and_feature_engineer call whose batch has no row left after
\* price cleaning writes nothing before it fails: while the call is under way
\* no brand table, encoder or scaler in model/ is one that this run wrote.
C22_EmptyBatchWritesNothing ==
    (fe.pc # "idle" /\ fe.df = <<>>) =>
        /\ ~(/\ model_dir["brand_stats"].exists
             /\ model_dir["brand_stats"].obj.run = fe.run)
        /\ ~(/\ model_dir["platform_encoder"].exists
             /\ model_dir["platform_encoder"].obj.fit.run = fe.run)
        /\ ~(/\ model_dir["scaler"].exists
             /\ model_dir["scaler"].obj.class = "dict"
             /\ model_dir["scaler"].obj.scaler.fit.run = fe.run)

\* C23: when the loaded model records an expected-feature-name list, the row
\* predict_price passes to the model has exactly that list as its columns, in
\* that order: an expected column the engineered row lacks is there with value
\* 0, an engineered column not in the list is gone, and the shared columns
\* keep their values.
C23_RowReindexedToExpected ==
    (pr.pc = "invoke" /\ pr.model[1].feature_names_in # None) =>
        LET X == pr.X[1]
            expected == pr.model[1].feature_names_in[1]
            passed == Align(X, pr.model[1])
        IN  /\ passed.columns = expected
            /\ DOMAIN passed.values = Range(expected)
            /\ \A c \in Range(expected) :
                  passed.values[c] = IF c \in Range(X.columns) THEN X.values[c] ELSE 0
            /\ \A c \in Range(X.columns) \ Range(expected) : c \notin DOMAIN passed.values

\* a row with platform_Amazon is about to be passed to a model that expects
\* platform_Unknown and no platform_Amazon
C23_RowWithExtraAndAbsentColumn ==
    /\ pr.pc = "invoke"
    /\ pr.model[1].feature_names_in # None
    /\ "platform_Amazon" \in Range(pr.X[1].columns)
    /\ "platform_Amazon" \notin Range(pr.model[1].feature_names_in[1])
    /\ "platform_Unknown" \in Range(pr.model[1].feature_names_in[1])
    /\ "platform_Unknown" \notin Range(pr.X[1].columns)

\* C24: a train_and_save run trains on exactly one batch file, the one the last
\* save_scraped_data call wrote (the file with the latest stamp, the clock
\* never going back): while the run is under way its frame is the cleaned rows
\* of that file, and every model it dumps is fitted on that frame.
C24_TrainsOnLastSavedBatch ==
    tr.pc # "idle" =>
        LET last == outputs[Max(DOMAIN outputs)].rows
        IN  /\ tr.df = TrainClean(last)
            /\ \A name \in ModelNames :
                  LET f == model_dir[name \o "_model"]
                  IN  (f.exists /\ f.obj.fit.run = tr.run)
                      => f.obj.fit.data = FitData(TrainClean(last))

\* a run is under way on the second of two different batches, its rf model
\* already dumped
C24_SecondBatchTrained ==
    /\ tr.pc = "lr"
    /\ DOMAIN outputs = {0, 1}
    /\ TrainClean(outputs[0].rows) # TrainClean(outputs[1].rows)
    /\ tr.df = TrainClean(outputs[1].rows)
    /\ model_dir["rf_model"].obj.fit.run = tr.run

\* C25: both training paths clean a price string by stripping the currency
\* sign and the thousands separators and reading the first numeric run
\* ("Rs1,200" and "1200" give 1200.00, "Rs 1,500.00" gives 1500.00), drop the
\* rows that give no number above 0, and keep only rows with price > 0: the
\* frame of a train_and_save run holds exactly the rows with such a price, and
\* every row in the frame of a clean_and_feature_engineer run carries the
\* first-numeric-run price of a row of the batch.
C25_CleanersTakeFirstNumericRun ==
    LET rows == outputs[0].rows
        FirstRun(str) ==
            LET bare == SelectIdx(str, LAMBDA c : c \notin {"Rs", ","})
                starts == {i \in 1..Len(bare) : bare[i] \in Digits}
                int == DigitRun(bare, Min(starts))
                j == Min(starts) + Len(int)
                frac == IF j <= Len(bare) /\ bare[j] = "." THEN DigitRun(bare, j + 1) ELSE <<>>
            IN  IF starts = {} THEN 0 ELSE Hundredths(int, frac)
        kept == SelectIdx(rows, LAMBDA r : FirstRun(r.price) > 0)
    IN  /\ FirstRun(P_1200a) = 120000 /\ FirstRun(P_1200b) = 120000
        /\ FirstRun(P_1500a) = 150000
        /\ tr.pc # "idle" =>
              /\ Len(tr.df) = Len(kept)
              /\ \A i \in 1..Len(kept) :
                    tr.df[i].price = FirstRun(kept[i].price) /\ tr.df[i].price > 0
        /\ fe.pc # "idle" =>
              \A i \in 1..Len(fe.df) :
                  /\ fe.df[i].price > 0
                  /\ \E k \in 1..Len(kept) : fe.df[i].price = FirstRun(kept[k].price)

\* C26: days_since is the number of whole days from the record timestamp to
\* the processing time, and it is 0 when the timestamp is absent, cannot be
\* parsed (the empty string included) or is later than the processing time;
\* it is never negative, in the frame of fit mode and in the row of inference.
C26_DaysSinceNeverNegative ==
    /\ \A i \in 1..Len(fe.df) : fe.df[i].days_since >= 0
    /\ pr.X # None =>
          LET d == pr.X[1].values["days_since"]
              rec == pr.record
              parsed == "timestamp" \in DOMAIN rec /\ rec.timestamp # <<>>
          IN  /\ d >= 0
              /\ ~parsed => d = 0
              /\ (parsed /\ rec.timestamp[1] > now) => d = 0
              /\ (parsed /\ rec.timestamp[1] <= now) => d = (now - rec.timestamp[1]) \div 86400

\* C27: the rating feature is the rating parsed as a number, and 0 when the
\* rating is absent or not a number: in the rating column the persisted models
\* of train_and_save were fitted on, and in the row built at inference.
C27_RatingZeroWhenNotNumeric ==
    /\ \A name \in ModelNames :
          LET f == model_dir[name \o "_model"]
          IN  (f.exists /\ f.obj.fit.by = "train_and_save") =>
                  \A i \in 1..Len(f.obj.fit.data) :
                      f.obj.fit.rating[i] = 2 * FillNa(ToNumeric(f.obj.fit.data[i].rating), 0)
    /\ pr.X # None =>
          pr.X[1].values["rating"] = FillNa(ToNumeric(pr.record.rating), 0)

\* C28: the brand of a row is the first alphanumeric token of its title,
\* upper-cased, "UNKNOWN" only for a title without alphanumeric characters,
\* and fit mode gives a title the brand inference gives it: for a batch of
\* which fit mode keeps every row, the brand of each row of the frame is the
\* first token of the title in the batch file and the brand inference extracts
\* from that title, and that brand is in the brand table once it is written.
C28_BrandIsFirstToken ==
    LET rows == outputs[0].rows
        FirstToken(title) ==
            LET alnum == {i \in 1..Len(title) : IsAlnum(title[i])}
                a == Min(alnum)
                stops == {i \in a..Len(title) : ~IsAlnum(title[i])}
                b == IF stops = {} THEN Len(title) ELSE Min(stops) - 1
            IN  IF alnum = {} THEN <<"U", "N", "K", "N", "O", "W", "N">>
                ELSE [i \in 1..(b - a + 1) |-> ToUpper(title[a + i - 1])]
    IN  (fe.pc # "idle" /\ Len(fe.df) = Len(rows)) =>
            \A i \in 1..Len(rows) :
                /\ fe.df[i].brand = FirstToken(rows[i].title)
                /\ fe.df[i].brand = Brand(rows[i].title)
                /\ model_dir["brand_stats"].exists =>
                      Brand(rows[i].title) \in DOMAIN model_dir["brand_stats"].obj.table

\* C29: in a run of main() the steps are ordered and gated.  The save step
\* writes the records of whichever scraper delivered any, a failed scraper
\* counting as none, and writes nothing and starts nothing when both deliver
\* nothing; train_and_save is started only after a non-empty batch was saved
\* in this run, and it trains on that batch; predict_price is called only
\* after train_and_save has returned without error in this run.
C29_MainStepsGated ==
    [][/\ \A amazon \in AmazonOutcomes, flipkart \in FlipkartOutcomes :
             MainScrapeSave(amazon, flipkart) =>
                 LET combined == Items(amazon) \o Items(flipkart)
                 IN  IF combined = <<>>
                     THEN outputs' = outputs /\ tr' = tr /\ model_dir' = model_dir
                     ELSE /\ now \in DOMAIN outputs'
                          /\ outputs'[now].rows = Unified(combined, now)
                          /\ \A n \in DOMAIN outputs : outputs'[n].rows = outputs[n].rows
       /\ tr'.run # tr.run =>
             /\ now \in DOMAIN outputs
             /\ outputs[now].rows # <<>>
             /\ tr'.pc # "idle" => tr'.df = TrainClean(outputs[now].rows)
       /\ (pr.out = "none" /\ pr' # pr) =>
             /\ tr.run # 0
             /\ tr.pc = "idle"
             /\ tr.out = "ok"
             /\ now \in DOMAIN outputs]_vars

\* the Amazon scraper delivered nothing, the Flipkart records were saved and
\* trained on, and the prediction asked for after the training has ended
C29_OneScraperSavedTrainedPredicted ==
    /\ now \in DOMAIN outputs
    /\ outputs[now].rows = Unified(FlipkartA, now)
    /\ tr.pc = "idle" /\ tr.out = "ok"
    /\ model_dir["rf_model"].obj.fit.data = FitData(TrainClean(outputs[now].rows))
    /\ pr.pc = "idle" /\ pr.out # "none"

\* C30: between train_and_save runs, whether they completed or failed part-way,
\* and no other training path having run, the scaler, the rf model, the lr
\* model and the performance table found in model/ all stem from one and the
\* same run.
C30_ArtifactsFromOneRun ==
    (tr.pc = "idle" /\ fe.pc = "idle" /\ fe.run = 0) =>
        LET RunOf(a) ==
                IF a = "model_performance" THEN model_dir[a].obj[1].RMSE[3]
                ELSE model_dir[a].obj.fit.run
            written == {a \in {"scaler", "rf_model", "lr_model", "model_performance"} :
                           model_dir[a].exists}
        IN  \A a, b \in written : RunOf(a) = RunOf(b)

====
